---- MODULE Spec2Model ----
(***************************************************************************)
(* Model of trainer/task_hypertune.py: the command-line training job that  *)
(* parses its flags, prepares MNIST, fits and evaluates a Keras model,     *)
(* saves it to mymodel.h5, uploads it to a bucket and writes the test      *)
(* accuracy as the scalar summary accuracyMnist.                           *)
(*                                                                         *)
(* Spec     the whole script, one action per statement group, every call   *)
(*          into a library either returning or raising.                    *)
(* SpecPre  the two preprocessing functions applied to bounded arrays.     *)
(***************************************************************************)
EXTENDS Integers, Sequences, FiniteSets, TLC

VARIABLES
  pc,          \* the statement group the script executes next, or how it ended
  argv,        \* the flags given on the command line (None: flag omitted)
  args,        \* the namespace parse_args returned (None before it returns)
  now,         \* index into Clock of the wall-clock second
  loaded,      \* what mnist.load_data() returned (None before the call)
  train_data,  \* prepare_data's first result:  <<x_train_norm, y_train_cat>>
  test_data,   \* prepare_data's second result: <<x_test_norm, y_test_cat>>
  logdir,      \* log_dir of the TensorBoard callback
  m,           \* the Keras model object
  eval_call,   \* the arguments m.evaluate was called with
  test_acc,    \* the accuracy m.evaluate returned, a fraction [num, den]
  localfile,   \* content of ./mymodel.h5 (None: no such file)
  gcs,         \* the calls blob.upload_from_filename completed, in order
  summaries,   \* the summaries written and flushed, in order
  trace,       \* history: the statement groups attempted and how each ended
  arg,         \* SpecPre: the array passed to the function under test
  ret          \* SpecPre: what the function returned

vars == <<pc, argv, args, now, loaded, train_data, test_data, logdir, m,
          eval_call, test_acc, localfile, gcs, summaries, trace, arg, ret>>

\* Python's None, and a value that is present, as sequences of length 0 and 1.
None == <<>>
Some(v) == <<v>>

\* ----------------------------------------------------------------- bounds
MaxTrain == 2      \* samples in the train split, at most
MaxTest == 1       \* samples in the test split, at most
NumClasses == 2    \* C: the labels are 0 .. C-1
MaxXLen == 2       \* SpecPre: length of a feature array of boundary pixels
MaxYLen == 3       \* SpecPre: length of a label array

\* -------------------------------------------------------- program constants
MaxPixel == 255            \* the divisor of _preprocess_x
DefaultBatchSize == 64
DefaultEpochs == 30

\* ------------------------------------------------------------ input domains
\* The command lines tried: each of --output-bucket, --output-path and
\* --job-dir omitted or given with the other flags left to their defaults,
\* and one command line that gives every flag.
CommandLines ==
  [output_bucket : {None, Some("bkt")},
   output_path   : {None, Some(""), Some("models")},
   job_dir       : {None, Some("job")},
   batch_size    : {None},
   epochs        : {None}]
  \cup
  { [output_bucket |-> Some("bkt"), output_path |-> Some("models"),
     job_dir |-> Some("job"), batch_size |-> Some(2), epochs |-> Some(1)] }

\* Two consecutive seconds of wall-clock time.
Clock == << [ymd |-> "20200101", hms |-> "235958"],
            [ymd |-> "20200101", hms |-> "235959"] >>

\* Pixels of the datasets of Spec, and of the longer arrays of SpecPre.
PipelinePixels == {0, MaxPixel}
BoundaryPixels == {0, 1, 127, 128, 254, MaxPixel}

Labels == 0 .. (NumClasses - 1)

\* The (features, labels) pairs of 1 .. n samples.
Splits(n) ==
  UNION { { <<x, y>> : x \in [1..k -> PipelinePixels], y \in [1..k -> Labels] }
          : k \in 1..n }

\* What mnist.load_data() may return: (x_train, y_train), (x_test, y_test).
mnist_load_data ==
  { [train |-> tr, test |-> te] : tr \in Splits(MaxTrain), te \in Splits(MaxTest) }

\* ------------------------------------------------------------ pure functions
RECURSIVE GCD(_, _)
GCD(a, b) == IF b = 0 THEN a ELSE GCD(b, a % b)

\* The quotient a / b of true division, as a fraction in lowest terms.
TrueDiv(a, b) ==
  LET g == GCD(a, b) IN [num |-> a \div g, den |-> b \div g]

\* Mutant: divides by 256, the number of intensities, not the largest one.
_preprocess_x_256(x) == [i \in DOMAIN x |-> TrueDiv(x[i], MaxPixel + 1)]

\* return x / 255.0, element-wise
_preprocess_x(x) == [i \in DOMAIN x |-> TrueDiv(x[i], MaxPixel)]

SeqMax(s) == CHOOSE v \in { s[i] : i \in DOMAIN s } :
               \A j \in DOMAIN s : s[j] <= v

\* keras.utils.to_categorical(y) with num_classes left to its default:
\* num_classes = max(y) + 1, and row i is 1 at column y[i] and 0 elsewhere.
\* Column c of the array is index c + 1 of the sequence.
to_categorical(y) ==
  LET num_classes == SeqMax(y) + 1
  IN  [i \in DOMAIN y |->
         [k \in 1..num_classes |-> IF k - 1 = y[i] THEN 1 ELSE 0]]

_preprocess_y(y) == to_categorical(y)

\* prepare_data's result for the loaded dataset d.
prepare_data(d) ==
  [train_data_prep |-> << _preprocess_x(d.train[1]), _preprocess_y(d.train[2]) >>,
   test_data_prep  |-> << _preprocess_x(d.test[1]),  _preprocess_y(d.test[2]) >>]

EndsWithSep(s) == Len(s) > 0 /\ SubSeq(s, Len(s), Len(s)) = "/"

\* posixpath.join(a, b) for a relative b.
os_path_join(a, b) ==
  IF a = "" \/ EndsWithSep(a) THEN a \o b ELSE a \o "/" \o b

\* time.strftime("%Y%m%d-%H%M%S") and time.strftime("%Y%m%d%H%M%S")
strftime_dashed(t) == t.ymd \o "-" \o t.hms
strftime_plain(t) == t.ymd \o t.hms

localfn == "mymodel.h5"
fn(t) == "mnist_keras_" \o strftime_plain(t) \o ".h5"

\* Mutant: the object is named by the file name alone, the prefix dropped.
output_path_gcs_noprefix(path_in_bucket, t) == fn(t)

output_path_gcs(path_in_bucket, t) == os_path_join(path_in_bucket, fn(t))

metric_tag == "accuracyMnist"
eval_path(job_dir) == os_path_join(job_dir, metric_tag)

\* Mutant: --output-path, which has a default, is not enforced.
RequiredOnlyBucket == {"output_bucket"}

\* The flags declared required=True.
Required == {"output_bucket", "output_path"}

\* The namespace parse_args returns when no required flag is missing.
Namespace(av) ==
  [bucket_name |-> av.output_bucket,
   output_path |-> av.output_path,
   batch_size  |-> IF av.batch_size = None THEN Some(DefaultBatchSize)
                   ELSE av.batch_size,
   epochs      |-> IF av.epochs = None THEN Some(DefaultEpochs) ELSE av.epochs,
   job_dir     |-> av.job_dir]

Unparsed ==
  [bucket_name |-> None, output_path |-> None, batch_size |-> None,
   epochs |-> None, job_dir |-> None]

\* ------------------------------------------------------------- control flow
\* Mutant: the upload is placed before the local save.
ProgramUploadFirst ==
  << "parse_args", "prepare_data", "logdir", "build_model", "fit", "evaluate",
     "upload", "save", "write_summary" >>

\* The statement groups of the script in textual order; there is no branch
\* and no loop between them.
Program ==
  << "parse_args", "prepare_data", "logdir", "build_model", "fit", "evaluate",
     "save", "upload", "write_summary" >>

After(step) ==
  LET i == CHOOSE j \in DOMAIN Program : Program[j] = step
  IN  IF i = Len(Program) THEN "done" ELSE Program[i + 1]

Return(step) ==
  /\ pc' = After(step)
  /\ trace' = Append(trace, [step |-> step, outcome |-> "ok"])

\* Mutant: the exception is caught and logged, and the script carries on.
RaiseSwallowed(step, exc) ==
  /\ pc' = After(step)
  /\ trace' = Append(trace, [step |-> step, outcome |-> exc])

\* An exception nothing catches: the interpreter exits.
Raise(step, exc) ==
  /\ pc' = "failed"
  /\ trace' = Append(trace, [step |-> step, outcome |-> exc])

NoModel == [state |-> "none", fit_x |-> <<>>, fit_y |-> <<>>,
            batch_size |-> 0, epochs |-> 0]

\* ------------------------------------------------------------------ actions
Init ==
  /\ pc = Program[1]
  /\ argv \in CommandLines
  /\ args = Unparsed
  /\ now = 1
  /\ loaded = None
  /\ train_data = None
  /\ test_data = None
  /\ logdir = None
  /\ m = None
  /\ eval_call = None
  /\ test_acc = None
  /\ localfile \in {None, Some([kind |-> "stale", model |-> NoModel])}
  /\ gcs = <<>>
  /\ summaries = <<>>
  /\ trace = <<>>
  /\ arg = <<>>
  /\ ret = <<>>

\* args = parser.parse_args(): exits with status 2 when a required flag is
\* missing, otherwise fills the namespace.
ParseArgs ==
  /\ pc = "parse_args"
  /\ IF \E f \in Required : argv[f] = None
       THEN /\ pc' = "usage_error"
            /\ trace' = Append(trace, [step |-> "parse_args", outcome |-> "SystemExit"])
            /\ UNCHANGED args
       ELSE /\ args' = Namespace(argv)
            /\ Return("parse_args")
  /\ UNCHANGED <<argv, now, loaded, train_data, test_data, logdir, m, eval_call,
                 test_acc, localfile, gcs, summaries, arg, ret>>

\* train_data, test_data = prepare_data()
PrepareData ==
  /\ pc = "prepare_data"
  /\ \E d \in mnist_load_data :
       /\ loaded' = Some(d)
       /\ train_data' = prepare_data(d).train_data_prep
       /\ test_data' = prepare_data(d).test_data_prep
  /\ Return("prepare_data")
  /\ UNCHANGED <<argv, args, now, logdir, m, eval_call, test_acc, localfile,
                 gcs, summaries, arg, ret>>

\* mnist.load_data() raises (no network, no disk).
PrepareDataFails ==
  /\ pc = "prepare_data"
  /\ Raise("prepare_data", "LibraryError")
  /\ UNCHANGED <<argv, args, now, loaded, train_data, test_data, logdir, m,
                 eval_call, test_acc, localfile, gcs, summaries, arg, ret>>

\* logdir = os.path.join(job_dir, "logs/scalars/" + time.strftime(...)):
\* os.path.join raises TypeError when job_dir is None.
MakeLogdir ==
  /\ pc = "logdir"
  /\ \E t \in now .. Len(Clock) :
       /\ now' = t
       /\ IF args.job_dir = None
            THEN /\ Raise("logdir", "TypeError")
                 /\ UNCHANGED logdir
            ELSE /\ logdir' = Some(os_path_join(args.job_dir[1],
                                     "logs/scalars/" \o strftime_dashed(Clock[t])))
                 /\ Return("logdir")
  /\ UNCHANGED <<argv, args, loaded, train_data, test_data, m, eval_call,
                 test_acc, localfile, gcs, summaries, arg, ret>>

\* m = build_model(); m.compile(...)
BuildModel ==
  /\ pc = "build_model"
  /\ m' = Some([NoModel EXCEPT !.state = "compiled"])
  /\ Return("build_model")
  /\ UNCHANGED <<argv, args, now, loaded, train_data, test_data, logdir,
                 eval_call, test_acc, localfile, gcs, summaries, arg, ret>>

BuildModelFails ==
  /\ pc = "build_model"
  /\ Raise("build_model", "LibraryError")
  /\ UNCHANGED <<argv, args, now, loaded, train_data, test_data, logdir, m,
                 eval_call, test_acc, localfile, gcs, summaries, arg, ret>>

\* x_train, y_train = train_data: what m.fit is given.
FitInput == train_data

\* m.fit(x_train, y_train, batch_size=batch_size, epochs=epochs, ...)
Fit ==
  /\ pc = "fit"
  /\ m' = Some([state |-> "fitted", fit_x |-> FitInput[1], fit_y |-> FitInput[2],
                batch_size |-> args.batch_size[1], epochs |-> args.epochs[1]])
  /\ Return("fit")
  /\ UNCHANGED <<argv, args, now, loaded, train_data, test_data, logdir,
                 eval_call, test_acc, localfile, gcs, summaries, arg, ret>>

FitFails ==
  /\ pc = "fit"
  /\ Raise("fit", "LibraryError")
  /\ UNCHANGED <<argv, args, now, loaded, train_data, test_data, logdir, m,
                 eval_call, test_acc, localfile, gcs, summaries, arg, ret>>

\* Mutant: the model is evaluated on the data it was fitted on.
EvalInputTrain == train_data

\* x_test, y_test = test_data: what m.evaluate is given.
EvalInput == test_data

\* test_loss, test_acc = m.evaluate(x_test, y_test): categorical accuracy is
\* the number of samples classified correctly over the number of samples.
Evaluate ==
  /\ pc = "evaluate"
  /\ eval_call' = EvalInput
  /\ \E correct \in 0 .. Len(EvalInput[1]) :
       test_acc' = Some(TrueDiv(correct, Len(EvalInput[1])))
  /\ Return("evaluate")
  /\ UNCHANGED <<argv, args, now, loaded, train_data, test_data, logdir, m,
                 localfile, gcs, summaries, arg, ret>>

EvaluateFails ==
  /\ pc = "evaluate"
  /\ Raise("evaluate", "LibraryError")
  /\ UNCHANGED <<argv, args, now, loaded, train_data, test_data, logdir, m,
                 eval_call, test_acc, localfile, gcs, summaries, arg, ret>>

\* m.save(localfn)
Save ==
  /\ pc = "save"
  /\ localfile' = Some([kind |-> "h5", model |-> m[1]])
  /\ Return("save")
  /\ UNCHANGED <<argv, args, now, loaded, train_data, test_data, logdir, m,
                 eval_call, test_acc, gcs, summaries, arg, ret>>

\* m.save raises (disk full): the file is as it was or left half written.
SaveFails ==
  /\ pc = "save"
  /\ localfile' \in {localfile, Some([kind |-> "partial", model |-> NoModel])}
  /\ Raise("save", "LibraryError")
  /\ UNCHANGED <<argv, args, now, loaded, train_data, test_data, logdir, m,
                 eval_call, test_acc, gcs, summaries, arg, ret>>

\* What blob.upload_from_filename(localfn) sends: the bytes of the local file.
Uploaded(t) ==
  [bucket |-> args.bucket_name[1],
   name |-> output_path_gcs(args.output_path[1], Clock[t]),
   content |-> localfile[1]]

\* Mutant: the local copy is removed once it has been uploaded.
UploadAndCleanUp ==
  /\ pc = "upload"
  /\ localfile # None
  /\ \E t \in now .. Len(Clock) :
       /\ now' = t
       /\ gcs' = Append(gcs, Uploaded(t))
  /\ localfile' = None
  /\ Return("upload")
  /\ UNCHANGED <<argv, args, loaded, train_data, test_data, logdir, m,
                 eval_call, test_acc, summaries, arg, ret>>

\* fn = 'mnist_keras_' + time.strftime(...) + '.h5' ... blob.upload_from_filename(localfn)
Upload ==
  /\ pc = "upload"
  /\ localfile # None
  /\ \E t \in now .. Len(Clock) :
       /\ now' = t
       /\ gcs' = Append(gcs, Uploaded(t))
  /\ Return("upload")
  /\ UNCHANGED <<argv, args, loaded, train_data, test_data, logdir, m,
                 eval_call, test_acc, localfile, summaries, arg, ret>>

\* storage.Client() or the upload raises (bad credentials, missing bucket),
\* or there is no local file to open: nothing is stored in the bucket.
UploadFails ==
  /\ pc = "upload"
  /\ \E t \in now .. Len(Clock) : now' = t
  /\ Raise("upload", IF localfile = None THEN "FileNotFoundError" ELSE "LibraryError")
  /\ UNCHANGED <<argv, args, loaded, train_data, test_data, logdir, m,
                 eval_call, test_acc, localfile, gcs, summaries, arg, ret>>

\* Summary(value=[Summary.Value(tag=metric_tag, simple_value=test_acc)])
SummaryValue == [tag |-> metric_tag, simple_value |-> test_acc[1]]

\* eval_path = os.path.join(job_dir, metric_tag); FileWriter(eval_path);
\* add_summary(summary); flush()
WriteSummary ==
  /\ pc = "write_summary"
  /\ IF args.job_dir = None
       THEN /\ Raise("write_summary", "TypeError")
            /\ UNCHANGED summaries
       ELSE /\ summaries' = Append(summaries,
                 [dir |-> eval_path(args.job_dir[1]),
                  tag |-> SummaryValue.tag,
                  value |-> SummaryValue.simple_value])
            /\ Return("write_summary")
  /\ UNCHANGED <<argv, args, now, loaded, train_data, test_data, logdir, m,
                 eval_call, test_acc, localfile, gcs, arg, ret>>

\* The FileWriter cannot create or write its event file.
WriteSummaryFails ==
  /\ pc = "write_summary"
  /\ Raise("write_summary", "LibraryError")
  /\ UNCHANGED <<argv, args, now, loaded, train_data, test_data, logdir, m,
                 eval_call, test_acc, localfile, gcs, summaries, arg, ret>>

Next ==
  \/ ParseArgs
  \/ PrepareData
  \/ PrepareDataFails
  \/ MakeLogdir
  \/ BuildModel
  \/ BuildModelFails
  \/ Fit
  \/ FitFails
  \/ Evaluate
  \/ EvaluateFails
  \/ Save
  \/ SaveFails
  \/ Upload
  \/ UploadFails
  \/ WriteSummary
  \/ WriteSummaryFails

Spec == Init /\ [][Next]_vars

\* --------------------------------------------- the preprocessing functions
\* Feature arrays: every single pixel value, and the longer arrays of
\* boundary values.  Label arrays: every array of 1 .. MaxYLen labels.
FeatureArrays ==
  { <<v>> : v \in 0 .. MaxPixel }
    \cup UNION { [1..k -> BoundaryPixels] : k \in 2 .. MaxXLen }

LabelArrays == UNION { [1..k -> Labels] : k \in 1 .. MaxYLen }

InitPre ==
  /\ \/ pc = "_preprocess_x" /\ arg \in FeatureArrays
     \/ pc = "_preprocess_y" /\ arg \in LabelArrays
  /\ ret = <<>>
  /\ argv = [output_bucket |-> None, output_path |-> None, job_dir |-> None,
             batch_size |-> None, epochs |-> None]
  /\ args = Unparsed
  /\ now = 1
  /\ loaded = None
  /\ train_data = None
  /\ test_data = None
  /\ logdir = None
  /\ m = None
  /\ eval_call = None
  /\ test_acc = None
  /\ localfile = None
  /\ gcs = <<>>
  /\ summaries = <<>>
  /\ trace = <<>>

Call_preprocess_x ==
  /\ pc = "_preprocess_x"
  /\ ret' = _preprocess_x(arg)
  /\ pc' = "returned_x"
  /\ UNCHANGED <<argv, args, now, loaded, train_data, test_data, logdir, m,
                 eval_call, test_acc, localfile, gcs, summaries, trace, arg>>

Call_preprocess_y ==
  /\ pc = "_preprocess_y"
  /\ ret' = _preprocess_y(arg)
  /\ pc' = "returned_y"
  /\ UNCHANGED <<argv, args, now, loaded, train_data, test_data, logdir, m,
                 eval_call, test_acc, localfile, gcs, summaries, trace, arg>>

NextPre == Call_preprocess_x \/ Call_preprocess_y

SpecPre == InitPre /\ [][NextPre]_vars

\* ------------------------------------------------------------------ claims
Steps(tr) == [i \in DOMAIN tr |-> tr[i].step]
Attempted(step) == \E i \in DOMAIN trace : trace[i].step = step
Succeeded(step) ==
  \E i \in DOMAIN trace : trace[i].step = step /\ trace[i].outcome = "ok"
IsPrefix(s, t) == Len(s) <= Len(t) /\ \A i \in DOMAIN s : s[i] = t[i]
SavedNow == localfile # None /\ localfile[1].kind = "h5"

\* C1: when --output-bucket or --output-path is omitted, argument parsing
\* fails and the run ends before prepare_data starts: no dataset is loaded,
\* no model is built or fitted, nothing is saved, uploaded or reported.
C1_ValidationPrecedesWork ==
  (argv.output_bucket = None \/ argv.output_path = None) =>
    /\ pc \in {"parse_args", "usage_error"}
    /\ \A i \in DOMAIN trace : trace[i].step = "parse_args"
    /\ loaded = None /\ train_data = None /\ test_data = None
    /\ m = None /\ test_acc = None
    /\ ~SavedNow
    /\ gcs = <<>> /\ summaries = <<>>

C1_Witness ==
  /\ pc = "usage_error"
  /\ argv.output_bucket # None
  /\ argv.output_path = None
  /\ trace = << [step |-> "parse_args", outcome |-> "SystemExit"] >>

\* C2: every step is attempted at most once; a step that fails is the last
\* one attempted, the run is then in a failed state in which nothing more can
\* happen, and the effects of the later steps are absent (no upload after a
\* failed save, no summary after a failed upload).
C2_FailFastNoRetry ==
  /\ \A i, j \in DOMAIN trace : trace[i].step = trace[j].step => i = j
  /\ \A i \in DOMAIN trace :
       trace[i].outcome # "ok" =>
         /\ i = Len(trace)
         /\ pc \in {"failed", "usage_error"}
  /\ pc \in {"failed", "usage_error"} =>
       /\ ~ENABLED Next
       /\ trace # <<>> /\ trace[Len(trace)].outcome # "ok"
  /\ gcs # <<>> => Succeeded("save") /\ Succeeded("upload")
  /\ summaries # <<>> => Succeeded("upload") /\ Succeeded("write_summary")
  /\ Len(gcs) <= 1 /\ Len(summaries) <= 1

C2_Witness ==
  /\ pc = "failed"
  /\ trace[Len(trace)] = [step |-> "upload", outcome |-> "LibraryError"]
  /\ Succeeded("save")
  /\ gcs = <<>> /\ summaries = <<>>

\* C3: in a run that completed, the upload client was called exactly once,
\* on the bucket named by --output-bucket, with the object name
\* os.path.join(<--output-path>, mnist_keras_<timestamp>.h5), and what it
\* sent is the local file this run saved from its fitted model.
C3_UploadOnce ==
  pc = "done" =>
    /\ Len(gcs) = 1
    /\ gcs[1].bucket = argv.output_bucket[1]
    /\ \E t \in DOMAIN Clock :
         gcs[1].name =
           os_path_join(argv.output_path[1],
                        "mnist_keras_" \o Clock[t].ymd \o Clock[t].hms \o ".h5")
    /\ gcs[1].content = [kind |-> "h5", model |-> m[1]]
    /\ gcs[1].content = localfile[1]
    /\ m[1].state = "fitted"

C3_Witness ==
  /\ pc = "done"
  /\ argv.output_path = Some("models")
  /\ gcs[1].name = "models/mnist_keras_20200101235959.h5"
  /\ gcs[1].bucket = "bkt"

\* C4: in a run that completed, exactly one scalar summary was written, under
\* <job-dir>/accuracyMnist with tag accuracyMnist, and its value is the
\* accuracy m.evaluate returned for the test split, evaluated on the model
\* fitted on the train split; the value lies in [0, 1].
C4_SummaryOnce ==
  pc = "done" =>
    /\ Len(summaries) = 1
    /\ summaries[1].dir = argv.job_dir[1] \o "/accuracyMnist"
    /\ summaries[1].tag = "accuracyMnist"
    /\ summaries[1].value = test_acc[1]
    /\ eval_call = test_data
    /\ m[1].state = "fitted"
    /\ m[1].fit_x = train_data[1] /\ m[1].fit_y = train_data[2]
    /\ summaries[1].value.den > 0
    /\ 0 <= summaries[1].value.num
    /\ summaries[1].value.num <= summaries[1].value.den

C4_Witness ==
  /\ pc = "done"
  /\ Len(summaries) = 1
  /\ summaries[1].dir = "job/accuracyMnist"
  /\ train_data # test_data
  /\ summaries[1].value = [num |-> 1, den |-> 1]

\* C5: the steps of a run occur in the fixed order data preparation, fit,
\* evaluation, local save, upload, summary write: the upload never starts
\* before the model is fitted and saved, and the metric is never reported
\* before the upload returned.
C5_PipelineOrder ==
  /\ IsPrefix(Steps(trace),
              << "parse_args", "prepare_data", "logdir", "build_model", "fit",
                 "evaluate", "save", "upload", "write_summary" >>)
  /\ Attempted("upload") =>
       /\ Succeeded("fit") /\ Succeeded("evaluate") /\ Succeeded("save")
       /\ m[1].state = "fitted"
  /\ Succeeded("upload") => SavedNow
  /\ Attempted("write_summary") => Succeeded("upload") /\ Len(gcs) = 1

C5_Witness ==
  /\ pc = "done"
  /\ Len(trace) = 9
  /\ trace[7].step = "save" /\ trace[8].step = "upload"
  /\ trace[9].step = "write_summary"

\* C6: a run given --output-bucket and --output-path but not --job-dir, in
\* which no library call fails, never ends in the failed state.
C6_JobDirOptional ==
  ( /\ argv.output_bucket # None
    /\ argv.output_path # None
    /\ argv.job_dir = None
    /\ \A i \in DOMAIN trace : trace[i].outcome # "LibraryError" )
  => pc # "failed"

\* C7: _preprocess_x maps every pixel v of 0 .. 255 to v / 255, which lies
\* in [0, 1], 0 to 0 and 255 to 1, element by element over the array.
C7_Normalization ==
  pc = "returned_x" =>
    /\ Len(ret) = Len(arg)
    /\ \A i \in DOMAIN arg :
         /\ ret[i].den > 0
         /\ ret[i].num * 255 = arg[i] * ret[i].den
         /\ 0 <= ret[i].num /\ ret[i].num <= ret[i].den
         /\ arg[i] = 0 => ret[i].num = 0
         /\ arg[i] = 255 => ret[i].num = ret[i].den

C7_Witness ==
  /\ pc = "returned_x"
  /\ arg = <<255, 0>>
  /\ ret = << [num |-> 1, den |-> 1], [num |-> 0, den |-> 1] >>

\* C8: for every label array over 0 .. C-1, _preprocess_y returns one row
\* per label, each of length C, with a 1 at the label's index and 0
\* elsewhere, also when the array does not contain the class C-1.
C8_OneHotLengthC ==
  pc = "returned_y" =>
    /\ Len(ret) = Len(arg)
    /\ \A i \in DOMAIN arg :
         /\ Len(ret[i]) = NumClasses
         /\ \A k \in 1 .. NumClasses :
              ret[i][k] = IF k - 1 = arg[i] THEN 1 ELSE 0

C10_LocalFileKept == [][SavedNow => localfile' = localfile]_vars

C10_Witness ==
  /\ pc = "failed"
  /\ trace[Len(trace)].step = "write_summary"
  /\ Len(gcs) = 1
  /\ SavedNow

====
